---- MODULE Spec2Model ----
(***************************************************************************)
(* Export orchestration engine of dxf_auto (core/dxf_exporter.py) and the  *)
(* assembly scanner that feeds it (core/assembly_scanner.py).              *)
(*                                                                         *)
(* The model follows DXFExporter.export_parts and _export_single_part      *)
(* statement group by statement group.  The host CAD engine (KOMPAS) and   *)
(* the file system are the environment: every call into them picks its     *)
(* outcome nondeterministically among the outcomes the wrapper in          *)
(* core/kompas_api.py can deliver (value, None/False, exception).          *)
(*                                                                         *)
(* dxf_exporter.py calls KompasDocument.activate, KompasDocument.rebuild,  *)
(* SheetMetalBody.straighten, SheetMetalBody.fold and                      *)
(* KompasAPI.stop_current_process; core/kompas_api.py does not define      *)
(* them.  Their behaviour is taken from the interface contract of spec.md  *)
(* section 6 (activate(), straighten()->bool, fold()->bool, ...): each     *)
(* may take effect, fail without effect, or raise.                         *)
(*                                                                         *)
(* Message texts are abbreviated in ASCII; the source text is quoted next  *)
(* to each.  str(e) of a caught exception is the token ExcText.            *)
(***************************************************************************)
EXTENDS Integers, Sequences, FiniteSets, TLC

\* ------------------------------------------------------------------ bounds
\* Number of SheetPartInfo records handed to export_parts.
NParts == 2

\* Largest number of components of a scanned hierarchy.
MaxNodes == 3
\* Size of the identifier space.  The source draws str(uuid.uuid4())[:8],
\* one of 16^8 values; the model draws from 1..NIds.
NIds == 2

PartIds == 1..NParts
\* Output paths the filename template can resolve to (at most one per part).
Paths == 1..NParts

\* ---------------------------------------------------------------- messages
\* "Файл уже существует"
MsgExists == "file already exists"
\* "Не удалось открыть документ детали"
MsgOpenFailed == "cannot open part document"
\* "Не удалось получить 3D документ"
MsgNo3D == "cannot get 3D document"
\* "Не удалось получить компонент"
MsgNoTopPart == "cannot get component"
\* "Деталь не является листовой"
MsgNotSheetMetal == "part is not sheet metal"
\* "Листовое тело не найдено"
MsgBodyMissing == "sheet metal body not found"
\* "Не удалось развернуть листовое тело"
MsgStraightenFailed == "cannot straighten body"
\* "Ошибка конвертации в DXF"
MsgConversionFailed == "DXF conversion error"
\* str(e) of an exception caught at the part boundary
ExcText == "exception text"

\* Minimum size in bytes of a DXF file that passes the content check.
MinDxfSize == 500

\* ------------------------------------------------------------- file system
NoFile == [writer |-> -1, size |-> 0]
\* A file found at an output path before the batch started (writer 0).
OldFile == [writer |-> 0, size |-> MinDxfSize + 1]
SmallFile(p) == [writer |-> p, size |-> MinDxfSize]
BigFile(p) == [writer |-> p, size |-> MinDxfSize + 1]

\* Path.exists()
Exists(f) == f # NoFile

VARIABLES
    parts,            \* the SheetPartInfo list passed to export_parts
    sharedName,       \* do all parts resolve to one output file name?
    settings,         \* ExportSettings fields read by the exporter
    pc,               \* position of export_parts / _export_single_part
    cancel_requested, \* DXFExporter._cancel_requested
    export_list,      \* local export_parts: the selected parts, in order
    index,            \* loop index of export_parts (number of parts begun)
    summary,          \* ExportSummary under construction
    progress,         \* ExportProgress record
    result,           \* ExportResult of the part in flight
    doc,              \* local doc of _export_single_part: "none" or "open"
    flow,             \* pending control transfer: "normal", "return", "raise"
    body,             \* host: state of the body in flight: "none" (not
                      \* located), "folded" or "straight"
    original_straightened, \* local snapshot taken at line 274
    chain,            \* return value of _export_to_dxf for the part in flight
    fs,               \* file system: path -> file
    openDocs,         \* host: number of source documents currently open
    h,                \* history of the part in flight
    called,           \* history: parts for which a host call was issued
    cancelAt,         \* history: where the latest cancel request arrived
    leaked,           \* history: close requests that failed so far
    host,             \* scanner: the component hierarchy the host exposes
    scan_pc,          \* scanner: position of scan_document
    stack,            \* scanner: frames of _scan_part_recursive in progress
    tree,             \* scanner: the AssemblyNode objects created so far
    scan_progress,    \* scanner: the ScanProgress record
    ticks,            \* scanner: the reports pushed to the observer
    sheet_parts,      \* result of get_all_sheet_parts on the scanned tree
    main,             \* interactive strategy: position of the calling thread
    helper,           \* interactive strategy: position of auto_complete_command
    fragment,         \* local fragment: "none", "open" or "closed"
    command_completed,\* the threading.Event of line 707
    command_success,  \* command_success[0]
    cmd_result,       \* local cmd_result
    timed_out,        \* did the wait at line 767 end by its timeout?
    frag_ret,         \* return value of _export_via_2d_fragment
    cmd_available,    \* value of is_command_available at line 693
    frag_saved,       \* local success: value of fragment.save_as (line 780)
    frag_file,        \* the file at the strategy's output path
    issuedAt,         \* history: positions of the calling thread at which
                      \* the helper issued a host call
    cl_pc,            \* cleanup view of the chain: position in strategies 2-4
    temp_file,        \* strategy -> its temporary model file: "none",
                      \* "unwritten" (path chosen), "exists" or "deleted"
    target,           \* strategy -> its 2D target document: "none", "open"
                      \* or "closed"
    cl_ret,           \* return value of the strategy in progress
    ch,               \* history: exit path, unlink and close requests of
                      \* each strategy
    rescan            \* the latest rescan_part call: node, state of its
                      \* back-reference, value returned, whether it raised

exportVars == << parts, sharedName, settings, pc, cancel_requested,
                 export_list, index, summary, progress, result, doc, flow,
                 body, original_straightened, chain, fs, openDocs, h, called,
                 cancelAt, leaked >>

scanVars == << host, scan_pc, stack, tree, scan_progress, ticks, sheet_parts >>

fragVars == << main, helper, fragment, command_completed, command_success,
               cmd_result, timed_out, frag_ret, issuedAt, cmd_available,
               frag_saved, frag_file >>

cleanVars == << cl_pc, temp_file, target, cl_ret, ch >>

vars == << exportVars, scanVars, fragVars, cleanVars, rescan >>

NoResult == [part |-> 0, success |-> FALSE, output_path |-> 0,
             error_message |-> "", start_time |-> FALSE, end_time |-> FALSE]

\* calls: host calls issued; closes, closeSaved: close requests and whether
\* one asked to save; tried: conversion strategies invoked, in order;
\* fileBefore: the file at the output path when the part began; snapshot:
\* body state read at line 274; failedAt: the step before restore that
\* failed; rebuildFalse, restore, closeOk, opened, located: outcomes of
\* those host calls.
NoHistory == [calls |-> {}, closes |-> 0, closeSaved |-> FALSE,
              tried |-> << >>, fileBefore |-> NoFile, doc_type |-> "unread",
              snapshot |-> "none", failedAt |-> "none", rebuildFalse |-> FALSE,
              restore |-> "none", closeOk |-> TRUE, opened |-> "notyet",
              located |-> "notyet"]

\* cancelAt: n is the number of results in the summary when the request
\* arrived, inflight whether a part was being processed; n = -1: no request,
\* n = -2: the request arrived before export_parts was invoked.
NoCancel == [n |-> -1, inflight |-> FALSE]
CancelledBefore == [n |-> -2, inflight |-> FALSE]

\* [p for p in parts if p.export_selected]  (line 169)
RECURSIVE SelectedFrom(_, _)
SelectedFrom(ps, i) ==
    IF i > NParts THEN << >>
    ELSE IF ps[i].export_selected
         THEN << i >> \o SelectedFrom(ps, i + 1)
         ELSE SelectedFrom(ps, i + 1)

\* Mutant: the filter is dropped and every part is exported.
Selected_All(ps) == [i \in 1..NParts |-> i]

Selected(ps) == SelectedFrom(ps, 1)

\* _generate_output_path (lines 813-842) and ExportSettings.get_output_path
\* (export_settings.py 343-374): the path is the template applied to the
\* part's naming variables.  Either the template tells the parts apart (it
\* uses {index}, or the names differ) or every part resolves to one path.
OutputPathOf(shared, p) == IF shared THEN 1 ELSE p

\* The scanner before scan_document is called (AssemblyScanner.__init__,
\* assembly_scanner.py 52-61); the hierarchy here is a single component.
ScanIdle ==
    /\ host = [par |-> << 0 >>, kind |-> << "plain" >>]
    /\ scan_pc = "idle"
    /\ stack = << >>
    /\ tree = << >>
    /\ scan_progress = [current |-> 0, total |-> 0]
    /\ ticks = << >>
    /\ sheet_parts = << >>

\* No interactive strategy is running.
FragIdle ==
    /\ main = "idle"
    /\ helper = "none"
    /\ fragment = "none"
    /\ command_completed = FALSE
    /\ command_success = FALSE
    /\ cmd_result = FALSE
    /\ timed_out = FALSE
    /\ frag_ret = FALSE
    /\ issuedAt = {}
    /\ cmd_available = FALSE
    /\ frag_saved = FALSE
    /\ frag_file = NoFile

\* Strategies 2 and 3 write a temporary model file, strategies 3 and 4 create
\* a 2D target document.
TempStrategies == {2, 3}
TargetStrategies == {3, 4}

NoCleanHistory == [exit |-> [n \in {2, 3, 4} |-> "none"],
                   unlinkAsked |-> {}, closeAsked |-> {}, closeSaved |-> FALSE]

\* rescan_part has not been called.
NoRescan == [node |-> 0, ref |-> "none", ret |-> "none", raised |-> FALSE]

RescanIdle == rescan = NoRescan

\* No strategy is running.
CleanIdle ==
    /\ cl_pc = "idle"
    /\ temp_file = [n \in TempStrategies |-> "none"]
    /\ target = [n \in TargetStrategies |-> "none"]
    /\ cl_ret = FALSE
    /\ ch = NoCleanHistory

Init ==
    /\ ScanIdle
    /\ FragIdle
    /\ CleanIdle
    /\ RescanIdle
    /\ parts \in [PartIds -> [export_selected : BOOLEAN,
                              export_path : {0}, export_status : {""}]]
    /\ sharedName \in BOOLEAN
    /\ settings \in [overwrite_existing : BOOLEAN,
                     straighten_before_export : BOOLEAN]
    /\ \E f \in {NoFile, OldFile} : fs = [p \in Paths |-> f]
    /\ pc = "idle"
    /\ cancel_requested = FALSE
    /\ export_list = << >>
    /\ index = 0
    /\ summary = [results |-> << >>, start_time |-> FALSE, end_time |-> FALSE]
    /\ progress = [current |-> 0, total |-> 0]
    /\ result = NoResult
    /\ doc = "none"
    /\ flow = "normal"
    /\ body = "none"
    /\ original_straightened = FALSE
    /\ chain = FALSE
    /\ openDocs = 0
    /\ h = NoHistory
    /\ called = {}
    /\ cancelAt = NoCancel
    /\ leaked = 0


\* ------------------------------------------------------------ small helpers
Cur == export_list[index]

InPart == pc \in {"gen_path", "check_exists", "open", "activate", "locate",
                  "straighten", "rebuild", "convert", "conv3", "conv4",
                  "restore", "close"}

\* The frame of the process-wide history.
CancelFrame == UNCHANGED << cancel_requested, cancelAt >>
InputFrame == UNCHANGED << parts, sharedName, settings, export_list >>
LeakFrame == UNCHANGED leaked
\* The exporter does not touch the scanner's state.
ScanFrame == UNCHANGED scanVars

FragFrame == UNCHANGED fragVars

CleanFrame == UNCHANGED cleanVars

RescanFrame == UNCHANGED rescan

\* --------------------------------------------------------- request_cancel
\* DXFExporter.request_cancel (lines 146-148), called from another thread at
\* any moment.  A request that finds the flag already set changes nothing.
RequestCancel ==
    /\ ScanFrame
    /\ FragFrame
    /\ CleanFrame
    /\ RescanFrame
    /\ pc \notin {"done", "raised"}
    /\ ~cancel_requested
    /\ cancel_requested' = TRUE
    /\ cancelAt' = IF pc = "idle" THEN CancelledBefore
                   ELSE [n |-> Len(summary.results),
                         inflight |-> InPart \/ pc = "append"]
    /\ UNCHANGED << parts, sharedName, settings, pc, export_list, index,
                    summary, progress, result, doc, flow, body,
                    original_straightened, chain, fs, openDocs, h, called,
                    leaked >>

\* ------------------------------------------------------------ export_parts
\* Mutant: the flag of an earlier request is kept.
ClearCancel_Kept(flag) == flag

\* Line 165: a request made before the invocation is dropped.
ClearCancel(flag) == FALSE

\* Lines 165-175: clear the flag, create the summary, filter, first report.

Invoke ==
    /\ ScanFrame
    /\ FragFrame
    /\ CleanFrame
    /\ RescanFrame
    /\ pc = "idle"
    /\ cancel_requested' = ClearCancel(cancel_requested)
    /\ summary' = [results |-> << >>, start_time |-> TRUE, end_time |-> FALSE]
    /\ export_list' = Selected(parts)
    /\ progress' = [current |-> 0, total |-> Len(Selected(parts))]
    /\ pc' = "ensure_dir"
    /\ UNCHANGED << parts, sharedName, settings, index, result, doc, flow,
                    body, original_straightened, chain, fs, openDocs, h,
                    called, cancelAt, leaked >>

\* _ensure_output_directory (lines 844-848): nothing to do when
\* output_directory is empty ("unset"), else Path.mkdir succeeds or raises.
EnsureDirOutcomes == {"unset", "ok", "raise"}

\* Where export_parts continues after line 178: the call is not guarded, so
\* an OSError from mkdir leaves export_parts.
AfterEnsureDir(outcome) == IF outcome = "raise" THEN "raised" ELSE "loop"

\* Lines 177-178.
EnsureOutputDirectory ==
    /\ ScanFrame
    /\ FragFrame
    /\ CleanFrame
    /\ RescanFrame
    /\ pc = "ensure_dir"
    /\ \E outcome \in EnsureDirOutcomes : pc' = AfterEnsureDir(outcome)
    /\ UNCHANGED << parts, sharedName, settings, cancel_requested, export_list,
                    index, summary, progress, result, doc, flow, body,
                    original_straightened, chain, fs, openDocs, h, called,
                    cancelAt, leaked >>

\* Mutant: the loop never looks at the flag.
CancelPolled_Never(flag) == FALSE

\* Lines 181-184: the cancellation flag is polled at the head of the loop.
CancelPolled(flag) == flag

\* Mutant: the record pushed before a part counts that part twice.
ReportedCurrent_Jump(i) == i + 2

\* Lines 186-189: the record pushed before part number i (from 0) is
\* processed carries current = i + 1.
ReportedCurrent(i) == i + 1

\* Lines 181-189 and 217-222: next part, progress report, result created.
LoopBody ==
    /\ ScanFrame
    /\ FragFrame
    /\ CleanFrame
    /\ RescanFrame
    /\ pc = "loop"
    /\ index < Len(export_list)
    /\ ~CancelPolled(cancel_requested)
    /\ index' = index + 1
    /\ progress' = [progress EXCEPT !.current = ReportedCurrent(index)]
    /\ result' = [NoResult EXCEPT !.part = export_list[index + 1],
                                  !.start_time = TRUE]
    /\ doc' = "none"
    /\ flow' = "normal"
    /\ h' = NoHistory
    /\ pc' = "gen_path"
    /\ UNCHANGED << summary, body, original_straightened, chain, fs,
                    openDocs, called >>
    /\ InputFrame /\ CancelFrame /\ LeakFrame

\* Mutant: the last record reports the number of parts processed.
FinalCurrent_Processed(p, processed) == processed

\* Line 201: after the loop, exhausted or broken, progress.current is set to
\* progress.total.
FinalCurrent(p, processed) == p.total

\* Lines 198-204: the loop is over (exhausted or broken); the summary is
\* closed and the last progress record is pushed.
LoopEnd ==
    /\ ScanFrame
    /\ FragFrame
    /\ CleanFrame
    /\ RescanFrame
    /\ pc = "loop"
    /\ index >= Len(export_list) \/ CancelPolled(cancel_requested)
    /\ summary' = [summary EXCEPT !.end_time = TRUE]
    /\ progress' = [progress EXCEPT !.current = FinalCurrent(progress, index)]
    /\ pc' = "done"
    /\ UNCHANGED << index, result, doc, flow, body, original_straightened,
                    chain, fs, openDocs, h, called >>
    /\ InputFrame /\ CancelFrame /\ LeakFrame

\* ---------------------------------------------------- _export_single_part
\* Lines 329-331, 333-342 with doc = None: the outer handler records str(e),
\* the finally has nothing to close, line 341 stamps the end time.
OuterExcept(r) == [r EXCEPT !.error_message = ExcText, !.end_time = TRUE]

\* Lines 225-227: _generate_output_path (lines 813-842) may raise while
\* formatting the variables or the sub-directory template.
GenerateOutputPath ==
    /\ ScanFrame
    /\ FragFrame
    /\ CleanFrame
    /\ RescanFrame
    /\ pc = "gen_path"
    /\ \E outcome \in {"ok", "raise"} :
         IF outcome = "ok"
         THEN /\ result' = [result EXCEPT
                              !.output_path = OutputPathOf(sharedName, Cur)]
              /\ h' = [h EXCEPT !.fileBefore = fs[OutputPathOf(sharedName, Cur)]]
              /\ pc' = "check_exists"
         ELSE /\ result' = OuterExcept(result)
              /\ h' = [h EXCEPT !.failedAt = "gen_path"]
              /\ pc' = "append"
    /\ UNCHANGED << index, summary, progress, doc, flow, body,
                    original_straightened, chain, fs, openDocs, called >>
    /\ InputFrame /\ CancelFrame /\ LeakFrame

\* Mutant: an existing file is always overwritten.
SkipFast_Never(file, overwrite) == FALSE

\* Line 230: the skip-fast test.
SkipFast(file, overwrite) == Exists(file) /\ ~overwrite

\* Lines 229-236: skip-fast, else create the parent directory.
CheckExists ==
    /\ ScanFrame
    /\ FragFrame
    /\ CleanFrame
    /\ RescanFrame
    /\ pc = "check_exists"
    /\ IF SkipFast(fs[result.output_path], settings.overwrite_existing)
       THEN /\ result' = [result EXCEPT !.error_message = MsgExists,
                                        !.end_time = TRUE]
            /\ h' = [h EXCEPT !.failedAt = "exists"]
            /\ pc' = "append"
       ELSE \E mkdir \in {"ok", "raise"} :
              IF mkdir = "ok"
              THEN /\ result' = result
                   /\ h' = h
                   /\ pc' = "open"
              ELSE /\ result' = OuterExcept(result)
                   /\ h' = [h EXCEPT !.failedAt = "mkdir"]
                   /\ pc' = "append"
    /\ UNCHANGED << index, summary, progress, doc, flow, body,
                    original_straightened, chain, fs, openDocs, called >>
    /\ InputFrame /\ CancelFrame /\ LeakFrame

\* Mutant: the export goes on with whatever the open returned.
AfterOpen_GoOn(outcome) == "activate"

\* Lines 239-243, 329-331: without a document the part returns at once.
AfterOpen(outcome) == IF outcome = "ok" THEN "activate" ELSE "append"

\* Lines 238-243 and 344-367.  "nofile": file_path empty or missing on disk
\* (no host call); "none": IDocuments.Open failed (kompas_api.py 268-286);
\* "raise": reaching the documents collection raised (kompas_api.py 187-190).
OpenPartDocument ==
    /\ ScanFrame
    /\ FragFrame
    /\ CleanFrame
    /\ RescanFrame
    /\ pc = "open"
    /\ \E outcome \in {"nofile", "none", "raise", "ok"} :
         /\ h' = [h EXCEPT !.calls = IF outcome = "nofile" THEN @ ELSE @ \cup {"open"},
                           !.failedAt = IF outcome = "ok" THEN @ ELSE "open",
                           !.opened = outcome]
         /\ pc' = AfterOpen(outcome)
         /\ called' = IF outcome = "nofile" THEN called ELSE called \cup {Cur}
         /\ CASE outcome = "ok" ->
                   /\ doc' = "open"
                   /\ openDocs' = openDocs + 1
                   /\ result' = result
              [] outcome = "raise" ->
                   /\ result' = OuterExcept(result)
                   /\ UNCHANGED << doc, openDocs >>
              [] OTHER ->
                   /\ result' = [result EXCEPT !.error_message = MsgOpenFailed,
                                               !.end_time = TRUE]
                   /\ UNCHANGED << doc, openDocs >>
    /\ UNCHANGED << index, summary, progress, flow, body,
                    original_straightened, chain, fs >>
    /\ InputFrame /\ CancelFrame /\ LeakFrame


\* ----------------------------------------------- host surface (kompas_api)
\* KompasDocument.is_3d / is_2d (kompas_api.py 351-359) over the cached
\* document_type (341-349); "unknown" is what a failed read caches.
DocTypes == {"drawing", "part", "unknown"}
Is3D(t) == t \in {"part", "assembly"}
Is2D(t) == t \in {"drawing", "fragment"}

\* SheetMetalBody.is_straightened getter (kompas_api.py 873-879).
IsStraightened(b) == b = "straight"

\* SheetMetalBody.is_straightened setter (kompas_api.py 881-887): a failed
\* assignment is logged and swallowed.
SetStraightened(b, hostOk) == IF hostOk THEN "straight" ELSE b

\* KompasDocument.activate(): takes effect or raises.
ActivateOutcomes == {"ok", "raise"}

\* KompasDocument.rebuild() -> bool, or raises.
RebuildOutcomes == {"true", "false", "raise"}

\* SheetMetalBody.straighten() -> bool and SheetMetalBody.fold() -> bool:
\* "ok" takes effect and returns True, "fail" returns False without effect,
\* "raise" raises without effect.
BodyOutcomes == {"ok", "fail", "raise"}
straighten(b, outcome) == IF outcome = "ok" THEN "straight" ELSE b
fold(b, outcome) == IF outcome = "ok" THEN "folded" ELSE b

\* KompasDocument.close (kompas_api.py 371-388): True, or False when the
\* host's Close raised and the document stays open.
CloseDoc(open, hostOk) == IF hostOk THEN open - 1 ELSE open

\* ------------------------------------- _export_single_part, document open
\* Mutant: the inner handler swallows the exception without recording it.
InnerExcept_Silent(r) == r

\* Lines 325-327: the inner handler records str(e); control then reaches the
\* outer finally and line 341.
InnerExcept(r) == [r EXCEPT !.error_message = ExcText]

\* Lines 245-247: first activation of the opened document.
Activate ==
    /\ ScanFrame
    /\ FragFrame
    /\ CleanFrame
    /\ RescanFrame
    /\ pc = "activate"
    /\ called' = called \cup {Cur}
    /\ \E outcome \in ActivateOutcomes :
         IF outcome = "ok"
         THEN /\ result' = result
              /\ h' = [h EXCEPT !.calls = @ \cup {"activate"}]
              /\ pc' = "locate"
         ELSE /\ result' = InnerExcept(result)
              /\ h' = [h EXCEPT !.calls = @ \cup {"activate"},
                                !.failedAt = "activate"]
              /\ pc' = "close"
    /\ UNCHANGED << index, summary, progress, doc, flow, body,
                    original_straightened, chain, fs, openDocs >>
    /\ InputFrame /\ CancelFrame /\ LeakFrame

\* Mutant: one message for every locate step.
LocateMessage_Generic(step) == MsgNotSheetMetal

\* The message of each locate step that finds nothing (lines 251-271).
LocateMessage(step) ==
    CASE step = "no3d" -> MsgNo3D
      [] step = "notop" -> MsgNoTopPart
      [] step = "nosheet" -> MsgNotSheetMetal
      [] step = "nobody" -> MsgBodyMissing

\* Lines 249-276: 3D view, top part, container, first body, snapshot.  Each
\* "return result" inside the try leaves through the outer finally and so
\* skips line 341.
Locate ==
    /\ ScanFrame
    /\ FragFrame
    /\ CleanFrame
    /\ RescanFrame
    /\ pc = "locate"
    /\ \E t \in DocTypes, step \in {"raise", "notop", "nosheet", "nobody",
                                   "folded", "straight"} :
         /\ h' = [h EXCEPT !.calls = @ \cup {"locate"}, !.doc_type = t,
                           !.snapshot = IF Is3D(t) /\ step \in {"folded", "straight"}
                                        THEN step ELSE "none",
                           !.failedAt = IF Is3D(t) /\ step \in {"folded", "straight"}
                                        THEN @ ELSE "locate",
                           !.located = IF Is3D(t) THEN step ELSE "no3d"]
         /\ CASE ~Is3D(t) ->
                   /\ result' = [result EXCEPT !.error_message = LocateMessage("no3d")]
                   /\ flow' = "return"
                   /\ pc' = "close"
                   /\ UNCHANGED << body, original_straightened >>
              [] Is3D(t) /\ step = "raise" ->
                   /\ result' = InnerExcept(result)
                   /\ flow' = flow
                   /\ pc' = "close"
                   /\ UNCHANGED << body, original_straightened >>
              [] Is3D(t) /\ step \in {"notop", "nosheet", "nobody"} ->
                   /\ result' = [result EXCEPT !.error_message = LocateMessage(step)]
                   /\ flow' = "return"
                   /\ pc' = "close"
                   /\ UNCHANGED << body, original_straightened >>
              [] OTHER ->
                   /\ body' = step
                   /\ original_straightened' = IsStraightened(step)
                   /\ result' = result
                   /\ flow' = flow
                   /\ pc' = "straighten"
    /\ called' = called \cup {Cur}
    /\ UNCHANGED << index, summary, progress, doc, chain, fs, openDocs >>
    /\ InputFrame /\ CancelFrame /\ LeakFrame

\* Mutant: the setting is ignored and the body is never straightened.
MustStraighten_Never(cfg, orig) == FALSE

\* Line 283: is straightening required?
MustStraighten(cfg, orig) == cfg.straighten_before_export /\ ~orig

\* Mutant: the export goes on to the rebuild whatever the flag says.
AfterStraighten_GoOn(straightened) == "rebuild"

\* Lines 292-300: the flag re-read after the straighten request decides
\* between the rebuild and the return at line 295, which leaves through the
\* finally at line 316.
AfterStraighten(straightened) == IF straightened THEN "rebuild" ELSE "restore"

\* Lines 278-297: activate, straighten if required, fall back to the
\* property setter, verify by re-reading the flag.
Straighten ==
    /\ ScanFrame
    /\ FragFrame
    /\ CleanFrame
    /\ RescanFrame
    /\ pc = "straighten"
    /\ called' = called \cup {Cur}
    /\ \E act \in ActivateOutcomes, outcome \in BodyOutcomes, setOk \in BOOLEAN :
         LET b1 == straighten(body, outcome)
             b2 == IF outcome = "fail" THEN SetStraightened(b1, setOk) ELSE b1
         IN
         CASE act = "raise" ->
                /\ h' = [h EXCEPT !.calls = @ \cup {"activate"}, !.failedAt = "activate"]
                /\ flow' = "raise"
                /\ pc' = "restore"
                /\ UNCHANGED << body, result >>
           [] act = "ok" /\ ~MustStraighten(settings, original_straightened) ->
                /\ h' = [h EXCEPT !.calls = @ \cup {"activate"}]
                /\ pc' = "convert"
                /\ UNCHANGED << body, result, flow >>
           [] act = "ok" /\ MustStraighten(settings, original_straightened)
                /\ outcome = "raise" ->
                /\ h' = [h EXCEPT !.calls = @ \cup {"activate", "straighten"},
                                  !.failedAt = "straighten"]
                /\ flow' = "raise"
                /\ pc' = "restore"
                /\ UNCHANGED << body, result >>
           [] OTHER ->
                /\ body' = b2
                /\ pc' = AfterStraighten(IsStraightened(b2))
                /\ IF IsStraightened(b2)
                   THEN /\ h' = [h EXCEPT !.calls = @ \cup {"activate", "straighten"}]
                        /\ UNCHANGED << result, flow >>
                   ELSE /\ h' = [h EXCEPT !.calls = @ \cup {"activate", "straighten"},
                                          !.failedAt = "straighten"]
                        /\ result' = [result EXCEPT !.error_message = MsgStraightenFailed]
                        /\ flow' = "return"
    /\ UNCHANGED << index, summary, progress, doc, original_straightened,
                    chain, fs, openDocs >>
    /\ InputFrame /\ CancelFrame /\ LeakFrame

\* Mutant: a rebuild that reports failure ends the part's export.
AfterRebuild_Fatal(outcome) == IF outcome = "false" THEN "restore" ELSE "convert"

\* Lines 302-308: the value of rebuild() selects a log line only; the export
\* goes on to _export_to_dxf either way.
AfterRebuild(outcome) == "convert"

\* Lines 299-305: activate and rebuild; a False from rebuild is only logged.
Rebuild ==
    /\ ScanFrame
    /\ FragFrame
    /\ CleanFrame
    /\ RescanFrame
    /\ pc = "rebuild"
    /\ \E act \in ActivateOutcomes, outcome \in RebuildOutcomes :
         IF act = "raise" \/ outcome = "raise"
         THEN /\ h' = [h EXCEPT !.calls = @ \cup {"rebuild"}, !.failedAt = "rebuild"]
              /\ flow' = "raise"
              /\ pc' = "restore"
         ELSE /\ h' = [h EXCEPT !.calls = @ \cup {"rebuild"},
                                !.rebuildFalse = (outcome = "false")]
              /\ flow' = flow
              /\ pc' = AfterRebuild(outcome)
    /\ UNCHANGED << index, summary, progress, result, doc, body,
                    original_straightened, chain, fs, openDocs, called >>
    /\ InputFrame /\ CancelFrame /\ LeakFrame



\* ------------------------------------------------ conversion fallback chain
\* What the host does when a strategy asks it to produce the output file:
\* "fail": the strategy gives up before or at the host's save/convert (no
\* file written); "true_nowrite": the host reports success but writes
\* nothing; "true_small" / "true_big": it reports success and writes a file
\* of at most / more than MinDxfSize bytes.
StrategyOutcomes == {"fail", "true_nowrite", "true_small", "true_big"}

WriteFile(file, outcome, p) ==
    CASE outcome = "true_small" -> SmallFile(p)
      [] outcome = "true_big" -> BigFile(p)
      [] OTHER -> file

\* The content sanity check (lines 469-471, 595-597, 784-787).
ContentCheck(file) == Exists(file) /\ file.size > MinDxfSize

\* Return value of a checked strategy (lines 467-482, 593-605, 780-799).
StrategyReturn(outcome, file) == outcome # "fail" /\ ContentCheck(file)

\* Lines 385-387: a 2D document is saved directly; the value of save_as is
\* returned as it is.
DirectSaveReturn(outcome) == outcome # "fail"

\* Lines 310-314: the chain's value decides the result.
ChainResult(r, success) ==
    IF success THEN [r EXCEPT !.success = TRUE]
    ELSE [r EXCEPT !.error_message = MsgConversionFailed]

\* Mutant: the chain goes on to the next strategy after a success as well.
Strategy_NoStop(n, next) ==
    \E outcome \in StrategyOutcomes :
      LET path == result.output_path
          file == WriteFile(fs[path], outcome, Cur)
          ok == StrategyReturn(outcome, file)
          last == next = "restore"
      IN
      /\ fs' = [fs EXCEPT ![path] = file]
      /\ h' = [h EXCEPT !.tried = Append(@, n), !.calls = @ \cup {"convert"},
                        !.failedAt = IF last /\ ~ok THEN "convert" ELSE @]
      /\ chain' = ok
      /\ result' = IF last THEN ChainResult(result, ok) ELSE result
      /\ pc' = IF last THEN "restore" ELSE next

\* Mutant: the chain gives up at the first strategy that fails.
Strategy_GiveUp(n, next) ==
    \E outcome \in StrategyOutcomes :
      LET path == result.output_path
          file == WriteFile(fs[path], outcome, Cur)
          ok == StrategyReturn(outcome, file)
      IN
      /\ fs' = [fs EXCEPT ![path] = file]
      /\ h' = [h EXCEPT !.tried = Append(@, n), !.calls = @ \cup {"convert"},
                        !.failedAt = IF ~ok THEN "convert" ELSE @]
      /\ chain' = ok
      /\ result' = ChainResult(result, ok)
      /\ pc' = "restore"

\* One strategy of the chain: `n` is its number, `next` the position after a
\* failure ("restore" for the last one).
Strategy(n, next) ==
    \E outcome \in StrategyOutcomes :
      LET path == result.output_path
          file == WriteFile(fs[path], outcome, Cur)
          ok == StrategyReturn(outcome, file)
          last == ok \/ next = "restore"
      IN
      /\ fs' = [fs EXCEPT ![path] = file]
      /\ h' = [h EXCEPT !.tried = Append(@, n), !.calls = @ \cup {"convert"},
                        !.failedAt = IF last /\ ~ok THEN "convert" ELSE @]
      /\ chain' = ok
      /\ result' = IF last THEN ChainResult(result, ok) ELSE result
      /\ pc' = IF last THEN "restore" ELSE next

\* Lines 307-314 and 383-392: entry of _export_to_dxf.  Method 1 (direct
\* save) for a 2D document, else method 2, _export_via_converter (407-501).
ExportToDxf ==
    /\ ScanFrame
    /\ FragFrame
    /\ CleanFrame
    /\ RescanFrame
    /\ pc = "convert"
    /\ IF Is2D(h.doc_type)
       THEN \E outcome \in StrategyOutcomes :
              LET path == result.output_path
                  ok == DirectSaveReturn(outcome)
              IN
              /\ fs' = [fs EXCEPT ![path] = WriteFile(fs[path], outcome, Cur)]
              /\ h' = [h EXCEPT !.tried = Append(@, 1), !.calls = @ \cup {"convert"},
                                !.failedAt = IF ok THEN @ ELSE "convert"]
              /\ chain' = ok
              /\ result' = ChainResult(result, ok)
              /\ pc' = "restore"
       ELSE Strategy(2, "conv3")
    /\ UNCHANGED << index, summary, progress, doc, flow, body,
                    original_straightened, openDocs, called >>
    /\ InputFrame /\ CancelFrame /\ LeakFrame

\* Lines 394-397: method 3, _export_via_drawing_view (503-624).
ExportViaDrawingView ==
    /\ ScanFrame
    /\ FragFrame
    /\ CleanFrame
    /\ RescanFrame
    /\ pc = "conv3"
    /\ Strategy(3, "conv4")
    /\ UNCHANGED << index, summary, progress, doc, flow, body,
                    original_straightened, openDocs, called >>
    /\ InputFrame /\ CancelFrame /\ LeakFrame

\* Lines 399-401: method 4, _export_via_2d_fragment (626-811).
ExportVia2dFragment ==
    /\ ScanFrame
    /\ FragFrame
    /\ CleanFrame
    /\ RescanFrame
    /\ pc = "conv4"
    /\ Strategy(4, "restore")
    /\ UNCHANGED << index, summary, progress, doc, flow, body,
                    original_straightened, openDocs, called >>
    /\ InputFrame /\ CancelFrame /\ LeakFrame

\* ------------------------------------------------------ restore and close
\* Mutant: the restore is skipped when the part is leaving by an exception
\* or an early return.
NeedsRestore_OnSuccessOnly(b, orig) == IsStraightened(b) # orig /\ flow = "normal"

\* Line 318: does the body differ from the snapshot?
NeedsRestore(b, orig) == IsStraightened(b) # orig

\* Lines 316-327: the finally of the mutation block.  The inverse request's
\* value is ignored; if it raises, or if an exception was pending, the inner
\* handler records str(e).  A pending return stays pending.
Restore ==
    /\ ScanFrame
    /\ FragFrame
    /\ CleanFrame
    /\ RescanFrame
    /\ pc = "restore"
    /\ \E outcome \in BodyOutcomes :
         LET need == NeedsRestore(body, original_straightened)
             raised == (need /\ outcome = "raise") \/ flow = "raise"
         IN
         /\ body' = IF ~need THEN body
                    ELSE IF original_straightened THEN straighten(body, outcome)
                    ELSE fold(body, outcome)
         /\ h' = [h EXCEPT !.restore = IF need THEN outcome ELSE "none",
                           !.calls = IF ~need THEN @
                                     ELSE IF original_straightened
                                     THEN @ \cup {"restore_straighten"}
                                     ELSE @ \cup {"fold"}]
         /\ result' = IF raised THEN InnerExcept(result) ELSE result
         /\ flow' = IF raised THEN "normal" ELSE flow
    /\ pc' = "close"
    /\ UNCHANGED << index, summary, progress, doc, original_straightened,
                    chain, fs, openDocs, called >>
    /\ InputFrame /\ CancelFrame /\ LeakFrame

\* The save argument of the close request at line 337.
CloseSaveArg == FALSE

\* Mutant: a cancelled batch leaves without closing the document.
MustClose_UnlessCancelled(d) == d # "none" /\ ~cancel_requested

\* Mutant: the document is closed only when the part succeeded.
MustClose_OnSuccess(d) == d # "none" /\ result.success

\* Line 335: the guard of the close request.
MustClose(d) == d # "none"

\* Line 341 is reached unless a "return result" inside the try is pending.
StampEnd(r, fl) == IF fl = "return" THEN r ELSE [r EXCEPT !.end_time = TRUE]

\* Lines 333-342: the outer finally closes the document without saving, a
\* failure being swallowed; then the result is returned.
Close ==
    /\ ScanFrame
    /\ FragFrame
    /\ CleanFrame
    /\ RescanFrame
    /\ pc = "close"
    /\ \E hostOk \in BOOLEAN :
         IF MustClose(doc)
         THEN /\ openDocs' = CloseDoc(openDocs, hostOk)
              /\ leaked' = IF hostOk THEN leaked ELSE leaked + 1
              /\ h' = [h EXCEPT !.closes = @ + 1,
                                !.closeSaved = @ \/ CloseSaveArg,
                                !.closeOk = hostOk,
                                !.calls = @ \cup {"close"}]
         ELSE UNCHANGED << openDocs, h, leaked >>
    /\ result' = StampEnd(result, flow)
    /\ pc' = "append"
    /\ UNCHANGED << index, summary, progress, doc, flow, body,
                    original_straightened, chain, fs, called >>
    /\ InputFrame /\ CancelFrame

\* Mutant: the status is "OK" whatever the result.
StatusOf_AlwaysOK(r) == "OK"

\* Line 196.
StatusOf(r) == IF r.success THEN "OK" ELSE r.error_message

\* Lines 191-196: the result joins the summary and the part records the
\* outcome.  The locals of _export_single_part are gone.
AppendResult ==
    /\ ScanFrame
    /\ FragFrame
    /\ CleanFrame
    /\ RescanFrame
    /\ pc = "append"
    /\ summary' = [summary EXCEPT !.results = Append(@, result)]
    /\ parts' = [parts EXCEPT ![Cur].export_path = result.output_path,
                              ![Cur].export_status = StatusOf(result)]
    /\ result' = NoResult
    /\ doc' = "none"
    /\ flow' = "normal"
    /\ body' = "none"
    /\ original_straightened' = FALSE
    /\ chain' = FALSE
    /\ h' = NoHistory
    /\ pc' = "loop"
    /\ UNCHANGED << sharedName, settings, export_list, index, progress, fs,
                    openDocs, called >>
    /\ CancelFrame /\ LeakFrame

\* ------------------------------------------------------------ specification
\* One step of the thread running export_parts.
ExportStep ==
    \/ Invoke
    \/ EnsureOutputDirectory
    \/ LoopBody
    \/ LoopEnd
    \/ GenerateOutputPath
    \/ CheckExists
    \/ OpenPartDocument
    \/ Activate
    \/ Locate
    \/ Straighten
    \/ Rebuild
    \/ ExportToDxf
    \/ ExportViaDrawingView
    \/ ExportVia2dFragment
    \/ Restore
    \/ Close
    \/ AppendResult

Next == ExportStep \/ RequestCancel

Spec == Init /\ [][Next]_vars

\* The exporting thread keeps running: every host call returns.
FairSpec == Spec /\ WF_vars(ExportStep)


\* ----------------------------------------------------------- ExportSummary
\* Number of results of `rs` whose success flag equals `flag`.
RECURSIVE CountSuccess(_, _)
CountSuccess(rs, flag) ==
    IF rs = << >> THEN 0
    ELSE (IF Head(rs).success = flag THEN 1 ELSE 0) + CountSuccess(Tail(rs), flag)

\* ExportSummary.total_count (lines 77-79).
total_count(s) == Len(s.results)

\* Mutant: every result is counted as a success.
success_count_All(s) == Len(s.results)

\* ExportSummary.success_count (lines 81-83).
success_count(s) == CountSuccess(s.results, TRUE)

\* ExportSummary.failure_count (lines 85-87).
failure_count(s) == CountSuccess(s.results, FALSE)

\* The quotient a / b of two integers as an exact fraction; den = 0 stands for
\* the ZeroDivisionError that Python's true division raises.
Quotient(a, b) == [num |-> a, den |-> b]

\* The product of a fraction and an integer.
Times(q, k) == [num |-> q.num * k, den |-> q.den]

\* success_rate without the guard of lines 91-92.
success_rate_Unguarded(s) == Times(Quotient(success_count(s), total_count(s)), 100)

\* ExportSummary.success_rate (lines 89-93): 0.0 for an empty summary, else
\* (success_count / total_count) * 100.
success_rate(s) ==
    IF total_count(s) = 0
    THEN Quotient(0, 1)
    ELSE Times(Quotient(success_count(s), total_count(s)), 100)

\* ------------------------------------------- _export_to_dxf taken on its own
\* _export_to_dxf(doc, output_path) (lines 369-405) applied to an open
\* document of any type, the body in either state and the output path free
\* or taken: the state at line 308, without the locate steps before it.
ChainInit ==
    /\ ScanIdle
    /\ FragIdle
    /\ CleanIdle
    /\ RescanIdle
    /\ parts \in [PartIds -> [export_selected : BOOLEAN,
                              export_path : {0}, export_status : {""}]]
    /\ sharedName \in BOOLEAN
    /\ settings \in [overwrite_existing : BOOLEAN,
                     straighten_before_export : BOOLEAN]
    /\ \E f \in {NoFile, OldFile} : fs = [p \in Paths |-> f]
    /\ pc = "convert"
    /\ cancel_requested = FALSE
    /\ \E p \in PartIds :
         /\ parts[p].export_selected
         /\ export_list = << p >>
         /\ result = [NoResult EXCEPT !.part = p, !.start_time = TRUE,
                                      !.output_path = OutputPathOf(sharedName, p)]
         /\ called = {p}
    /\ index = 1
    /\ summary = [results |-> << >>, start_time |-> TRUE, end_time |-> FALSE]
    /\ progress = [current |-> 1, total |-> 1]
    /\ doc = "open"
    /\ flow = "normal"
    /\ body \in {"folded", "straight"}
    /\ original_straightened = IsStraightened(body)
    /\ chain = FALSE
    /\ openDocs = 1
    /\ \E t \in DocTypes :
         h = [NoHistory EXCEPT !.doc_type = t, !.snapshot = body,
                               !.fileBefore = fs[result.output_path]]
    /\ cancelAt = NoCancel
    /\ leaked = 0

ChainNext ==
    \/ ExportToDxf
    \/ ExportViaDrawingView
    \/ ExportVia2dFragment

ChainSpec == ChainInit /\ [][ChainNext]_vars


\* ======================================================== assembly scanner
\* What the three detection queries of Part3D.get_sheet_metal_container
\* (kompas_api.py 645-740) find on a component:
\*   "plain"      no query yields a body;
\*   "direct"     the SheetMetalBodies property yields a count > 0 and the
\*                bodies can be fetched;
\*   "unreadable" the property yields a count > 0 but no body can be fetched
\*                through any accessor (kompas_api.py 795-816);
\*   "subfeature" only SubFeatures(74) yields bodies (method 2);
\*   "alternate"  only GetSubFeatures(74) yields bodies (method 3).
Kinds == {"plain", "direct", "unreadable", "subfeature", "alternate"}

\* Part3D.get_sheet_metal_container: is a container returned (not None)?
GetSheetMetalContainer(k) == k # "plain"

\* SheetMetalContainer.has_sheet_metal (kompas_api.py 819-826): asks the
\* SheetMetalBodies property only.
HasSheetMetal(k) == k \in {"direct", "unreadable"}

\* SheetMetalContainer.sheet_metal_bodies (kompas_api.py 786-817): the number
\* of bodies in the returned list.
SheetMetalBodies(k) == IF k = "direct" THEN 1 ELSE 0

\* The identifiers str(uuid.uuid4())[:8] can take; 0 stands for "".
Ids == 1..NIds

\* The exporter while a scan runs: nothing selected, export_parts not called.
ExportIdle ==
    /\ parts = [p \in PartIds |-> [export_selected |-> FALSE,
                                   export_path |-> 0, export_status |-> ""]]
    /\ sharedName = FALSE
    /\ settings = [overwrite_existing |-> FALSE,
                   straighten_before_export |-> TRUE]
    /\ fs = [p \in Paths |-> NoFile]
    /\ pc = "idle"
    /\ cancel_requested = FALSE
    /\ export_list = << >>
    /\ index = 0
    /\ summary = [results |-> << >>, start_time |-> FALSE, end_time |-> FALSE]
    /\ progress = [current |-> 0, total |-> 0]
    /\ result = NoResult
    /\ doc = "none"
    /\ flow = "normal"
    /\ body = "none"
    /\ original_straightened = FALSE
    /\ chain = FALSE
    /\ openDocs = 0
    /\ h = NoHistory
    /\ called = {}
    /\ cancelAt = NoCancel
    /\ leaked = 0

\* The scanner does not touch the exporter's state.
ExportFrame == UNCHANGED exportVars

\* A hierarchy: component 1 is the top part, every other component hangs
\* under an earlier one; siblings are enumerated by increasing number.
IsHierarchy(par) ==
    /\ par[1] = 0
    /\ \A i \in 2..Len(par) : par[i] \in 1..(i - 1)

\* Part3D.parts (kompas_api.py 612-635): the children of c from number i on.
RECURSIVE ChildrenFrom(_, _, _)
ChildrenFrom(hst, c, i) ==
    IF i > Len(hst.par) THEN << >>
    ELSE IF hst.par[i] = c THEN << i >> \o ChildrenFrom(hst, c, i + 1)
    ELSE ChildrenFrom(hst, c, i + 1)

Children(hst, c) == ChildrenFrom(hst, c, c + 1)

\* _count_parts (assembly_scanner.py 140-153).
RECURSIVE CountParts(_, _)
RECURSIVE CountAll(_, _)
CountParts(hst, c) == 1 + CountAll(hst, Children(hst, c))
CountAll(hst, cs) ==
    IF cs = << >> THEN 0
    ELSE CountParts(hst, Head(cs)) + CountAll(hst, Tail(cs))

ScanInit ==
    /\ ExportIdle
    /\ FragIdle
    /\ CleanIdle
    /\ RescanIdle
    /\ \E n \in 1..MaxNodes :
         \E par \in [1..n -> 0..(n - 1)], kind \in [1..n -> Kinds] :
           /\ IsHierarchy(par)
           /\ host = [par |-> par, kind |-> kind]
    /\ scan_pc = "idle"
    /\ stack = << >>
    /\ tree = << >>
    /\ scan_progress = [current |-> 0, total |-> 0]
    /\ ticks = << >>
    /\ sheet_parts = << >>

\* What the observer receives from _report_progress (lines 67-70); part is
\* the component named in current_part, 0 when none is.
Report(p, c) == [current |-> p.current, total |-> p.total, part |-> c]

\* scan_document, lines 96-117: a document that is not 3D, or gives no 3D
\* interface or no top part, is refused (None); else the first report.
ScanDocument ==
    /\ scan_pc = "idle"
    /\ \E ok \in BOOLEAN :
         IF ok
         THEN /\ scan_progress' = [current |-> 0, total |-> 0]
              /\ ticks' = Append(ticks, Report(scan_progress', 0))
              /\ scan_pc' = "count"
         ELSE /\ scan_pc' = "refused"
              /\ UNCHANGED << scan_progress, ticks >>
    /\ UNCHANGED << host, stack, tree, sheet_parts >>
    /\ ExportFrame
    /\ FragFrame
    /\ CleanFrame
    /\ RescanFrame

\* scan_document, lines 119-125: first pass, the total, second report.
CountPass ==
    /\ scan_pc = "count"
    /\ scan_progress' = [scan_progress EXCEPT !.total = CountParts(host, 1)]
    /\ ticks' = Append(ticks, Report(scan_progress', 0))
    /\ scan_pc' = "scan"
    /\ UNCHANGED << host, stack, tree, sheet_parts >>
    /\ ExportFrame
    /\ FragFrame
    /\ CleanFrame
    /\ RescanFrame

\* Mutant: the counter is not advanced.
Tick_Stuck(p) == p

\* Line 183: progress.current += 1.
Tick(p) == [p EXCEPT !.current = @ + 1]

NoInfo == [id |-> 0, comp |-> 0, level |-> 0, parent_id |-> 0]

\* _create_sheet_part_info (lines 250-285): built from the part and its
\* first body; the id is assigned by the caller.
CreateSheetPartInfo(c, level, parent_id) ==
    [id |-> 0, comp |-> c, level |-> level, parent_id |-> parent_id]

\* _scan_part_recursive, lines 188-233: detection and the node created.
ScanNode(c, id, level, parent_id) ==
    LET k == host.kind[c]
        flagged == GetSheetMetalContainer(k) /\ HasSheetMetal(k)
        info == IF flagged /\ SheetMetalBodies(k) > 0
                THEN [CreateSheetPartInfo(c, level, parent_id) EXCEPT !.id = id]
                ELSE NoInfo
    IN [comp |-> c, id |-> id, level |-> level, parent_id |-> parent_id,
        is_sheet_metal |-> flagged, sheet_part |-> info, children |-> << >>]

\* The frame of _scan_part_recursive on top of the stack.
Top == stack[Len(stack)]

\* _scan_part_recursive, lines 174-233, entered for the top part (line 127)
\* or for the next child of the node on top (lines 235-246): fresh
\* identifier, progress advanced and reported, node created.
ScanPartRecursive ==
    /\ scan_pc = "scan"
    /\ \/ stack = << >> /\ tree = << >>
       \/ stack # << >> /\ Top.rest # << >>
    /\ LET root == stack = << >>
           c == IF root THEN 1 ELSE Head(Top.rest)
           level == IF root THEN 0 ELSE tree[Top.node].level + 1
           parent_id == IF root THEN 0 ELSE tree[Top.node].id
           callers == IF root THEN << >>
                      ELSE [stack EXCEPT ![Len(stack)].rest = Tail(@)]
       IN
       \E id \in Ids :
         /\ scan_progress' = Tick(scan_progress)
         /\ ticks' = Append(ticks, Report(scan_progress', c))
         /\ tree' = Append(tree, ScanNode(c, id, level, parent_id))
         /\ stack' = Append(callers, [node |-> Len(tree) + 1,
                                      rest |-> Children(host, c)])
    /\ UNCHANGED << host, scan_pc, sheet_parts >>
    /\ ExportFrame
    /\ FragFrame
    /\ CleanFrame
    /\ RescanFrame

\* Mutant: add_child leaves the child on its parent's level.
AddChild_SameLevel(t, parent, child) ==
    [t EXCEPT ![child].parent_id = t[parent].id,
              ![child].level = t[parent].level,
              ![parent].children = Append(@, child)]

\* AssemblyNode.add_child (sheet_part.py 216-220).
AddChild(t, parent, child) ==
    [t EXCEPT ![child].parent_id = t[parent].id,
              ![child].level = t[parent].level + 1,
              ![parent].children = Append(@, child)]

\* _scan_part_recursive, lines 235-248: the children are exhausted, the
\* node is returned and the caller adds it to its own node.
ReturnNode ==
    /\ scan_pc = "scan"
    /\ stack # << >>
    /\ Top.rest = << >>
    /\ stack' = SubSeq(stack, 1, Len(stack) - 1)
    /\ IF Len(stack) > 1
       THEN /\ tree' = AddChild(tree, stack[Len(stack) - 1].node, Top.node)
            /\ scan_pc' = scan_pc
       ELSE /\ tree' = tree
            /\ scan_pc' = "finish"
    /\ UNCHANGED << host, scan_progress, ticks, sheet_parts >>
    /\ ExportFrame
    /\ FragFrame
    /\ CleanFrame
    /\ RescanFrame

\* scan_document, lines 134-138: last report, the tree is returned.
ScanFinish ==
    /\ scan_pc = "finish"
    /\ scan_progress' = [scan_progress EXCEPT !.current = scan_progress.total]
    /\ ticks' = Append(ticks, Report(scan_progress', 0))
    /\ scan_pc' = "done"
    /\ UNCHANGED << host, stack, tree, sheet_parts >>
    /\ ExportFrame
    /\ FragFrame
    /\ CleanFrame
    /\ RescanFrame

\* Mutant: every node is listed.
Listed_Any(node) == TRUE

\* sheet_part.py line 231: does the node contribute an entry?
Listed(node) == node.is_sheet_metal /\ node.sheet_part # NoInfo

\* AssemblyNode.get_all_sheet_parts (sheet_part.py 222-237) on node i of t.
RECURSIVE get_all_sheet_parts(_, _)
RECURSIVE ExtendAll(_, _)
get_all_sheet_parts(t, i) ==
    (IF Listed(t[i]) THEN << t[i].sheet_part >> ELSE << >>)
      \o ExtendAll(t, t[i].children)
ExtendAll(t, cs) ==
    IF cs = << >> THEN << >>
    ELSE get_all_sheet_parts(t, Head(cs)) \o ExtendAll(t, Tail(cs))

\* main_window.py line 421: the scanned tree is flattened.
FlattenTree ==
    /\ scan_pc = "done"
    /\ sheet_parts' = get_all_sheet_parts(tree, 1)
    /\ scan_pc' = "flat"
    /\ UNCHANGED << host, stack, tree, scan_progress, ticks >>
    /\ ExportFrame
    /\ FragFrame
    /\ CleanFrame
    /\ RescanFrame

ScanNext ==
    \/ ScanDocument
    \/ CountPass
    \/ ScanPartRecursive
    \/ ReturnNode
    \/ ScanFinish
    \/ FlattenTree

ScanSpec == ScanInit /\ [][ScanNext]_vars


\* -------------------------------------------------------------- rescan_part
\* The back-reference node._com_object when rescan_part is called: "missing"
\* (None), "stale" (the host object it named is gone, every call through it
\* fails) or "live".
RefStates == {"missing", "stale", "live"}

\* Mutant: a stale reference is answered like a live one.
RescanResult_Trusting(ref, node) ==
    LET k == host.kind[node.comp] IN
    IF ref # "missing" /\ GetSheetMetalContainer(k) /\ HasSheetMetal(k)
       /\ SheetMetalBodies(k) > 0
    THEN CreateSheetPartInfo(node.comp, node.level, node.parent_id)
    ELSE NoInfo

\* rescan_part (lines 309-329): None without a reference (309-311); through a
\* stale one the detection finds nothing or raises into the handler at line
\* 326; through a live one a fresh SheetPartInfo, or None if the part has no
\* sheet-metal body.
RescanResult(ref, node) ==
    LET k == host.kind[node.comp] IN
    IF ref = "live" /\ GetSheetMetalContainer(k) /\ HasSheetMetal(k)
       /\ SheetMetalBodies(k) > 0
    THEN CreateSheetPartInfo(node.comp, node.level, node.parent_id)
    ELSE NoInfo

\* rescan_part(node) on a node of the scanned tree.
RescanPart ==
    /\ scan_pc = "done"
    /\ \E i \in 1..Len(tree), ref \in RefStates :
         rescan' = [node |-> i, ref |-> ref,
                    ret |-> RescanResult(ref, tree[i]), raised |-> FALSE]
    /\ UNCHANGED scanVars
    /\ ExportFrame
    /\ FragFrame
    /\ CleanFrame

RescanNext == ScanNext \/ RescanPart

RescanSpec == ScanInit /\ [][RescanNext]_vars


\* ============================================== interactive-command strategy
\* _export_via_2d_fragment (lines 626-811) with its two threads: the calling
\* thread and the daemon thread running auto_complete_command (lines
\* 710-746), followed by what the calling thread does once the strategy has
\* returned: the restore of lines 316-323, the close of lines 333-339 and the
\* next part.  A host call has no time limit, so the helper may stay inside
\* one for as long as the host likes.

\* KompasAPI.stop_current_process(cancel) -> bool, or raises.
StopOutcomes == {"true", "false", "raise"}

\* Positions of the calling thread inside the strategy once the helper runs.
InStrategy == {"execute", "retry", "wait", "save", "finally"}

\* Positions of the calling thread after the strategy has returned.
AfterStrategy == {"returned", "restore", "close", "next"}

\* The helper is inside stop_current_process.
InHostCall(hp) == hp \in {"in_stop1", "in_stop2"}

\* Mutant: the helper is already running when the strategy begins.
FragmentInit_HelperRunning ==
    /\ ExportIdle
    /\ ScanIdle
    /\ CleanIdle
    /\ RescanIdle
    /\ main = "begin"
    /\ helper = "sleep"
    /\ fragment = "none"
    /\ command_completed = FALSE
    /\ command_success = FALSE
    /\ cmd_result = FALSE
    /\ timed_out = FALSE
    /\ frag_ret = FALSE
    /\ issuedAt = {}
    /\ cmd_available = FALSE
    /\ frag_saved = FALSE
    /\ frag_file \in {NoFile, OldFile}

FragmentInit ==
    /\ ExportIdle
    /\ ScanIdle
    /\ CleanIdle
    /\ RescanIdle
    /\ main = "begin"
    /\ helper = "none"
    /\ fragment = "none"
    /\ command_completed = FALSE
    /\ command_success = FALSE
    /\ cmd_result = FALSE
    /\ timed_out = FALSE
    /\ frag_ret = FALSE
    /\ issuedAt = {}
    /\ cmd_available = FALSE
    /\ frag_saved = FALSE
    /\ frag_file \in {NoFile, OldFile}

FragmentFrame == UNCHANGED << exportVars, scanVars, cleanVars, rescan >>

\* What only the save writes.
SaveFrame == UNCHANGED << frag_saved, frag_file >>

\* Lines 658-696: activate the source, create the fragment, activate the
\* source again.  "raise" before the fragment exists or after it, "nofragment"
\* is documents.add returning None (line 678).
FragmentBegin ==
    /\ FragmentFrame
    /\ SaveFrame
    /\ main = "begin"
    /\ \E outcome \in {"raise", "nofragment", "raise_after", "ok"} :
         /\ fragment' = IF outcome \in {"raise_after", "ok"} THEN "open" ELSE "none"
         /\ main' = IF outcome = "ok" THEN "start" ELSE "finally"
         /\ cmd_available' \in (IF outcome = "ok" THEN BOOLEAN ELSE {FALSE})
    /\ UNCHANGED << helper, command_completed, command_success, cmd_result,
                    timed_out, frag_ret, issuedAt >>

\* Lines 707-708, 748-750: the event, and the daemon thread started.
StartHelper ==
    /\ FragmentFrame
    /\ SaveFrame
    /\ UNCHANGED cmd_available
    /\ main = "start"
    /\ main' = "execute"
    /\ helper' = "sleep"
    /\ command_completed' = FALSE
    /\ command_success' = FALSE
    /\ UNCHANGED << fragment, cmd_result, timed_out, frag_ret, issuedAt >>

\* Lines 755-757: execute_command(40373, post=True) (kompas_api.py 208-223
\* never raises).
ExecuteCommand ==
    /\ FragmentFrame
    /\ SaveFrame
    /\ UNCHANGED cmd_available
    /\ main = "execute"
    /\ \E r \in BOOLEAN :
         /\ cmd_result' = r
         /\ main' = IF r THEN "wait" ELSE "retry"
    /\ UNCHANGED << helper, fragment, command_completed, command_success,
                    timed_out, frag_ret, issuedAt >>

\* Lines 760-764: the synchronous retry.
RetryCommand ==
    /\ FragmentFrame
    /\ SaveFrame
    /\ UNCHANGED cmd_available
    /\ main = "retry"
    /\ cmd_result' \in BOOLEAN
    /\ main' = "wait"
    /\ UNCHANGED << helper, fragment, command_completed, command_success,
                    timed_out, frag_ret, issuedAt >>

\* Mutant: the wait has no timeout.
WaitExpires_Never(hp) == FALSE

\* Line 767: command_completed.wait(timeout=5.0) gives up after five seconds;
\* the helper's sleeps add up to about one, so the wait expires only while
\* the helper is held inside a host call.
WaitExpires(hp) == InHostCall(hp)

\* Lines 767-773: the wait ends when the event is set or the timeout expires
\* (lines 769-770 log the latter).
WaitCompleted ==
    /\ FragmentFrame
    /\ SaveFrame
    /\ UNCHANGED cmd_available
    /\ main = "wait"
    /\ \/ command_completed /\ timed_out' = FALSE
       \/ ~command_completed /\ WaitExpires(helper) /\ timed_out' = TRUE
    /\ main' = "save"
    /\ UNCHANGED << helper, fragment, command_completed, command_success,
                    cmd_result, frag_ret, issuedAt >>

\* Mutant: the strategy also wants the command and the helper to have
\* reported success.
FragmentReturn_NeedsCommand(saved, file, cmd, accepted) ==
    saved /\ ContentCheck(file) /\ cmd /\ accepted

\* Lines 782-799: True exactly when save_as returned True and the output
\* file exists with more than 500 bytes; cmd_result and command_success[0]
\* are only logged.
FragmentReturn(saved, file, cmd, accepted) == saved /\ ContentCheck(file)

\* Lines 775-803: activate the fragment ("raise": it raises and the save is
\* not reached), save it, check the file.
SaveFragment ==
    /\ FragmentFrame
    /\ main = "save"
    /\ \E outcome \in StrategyOutcomes \cup {"raise"} :
         /\ frag_file' = WriteFile(frag_file, outcome, 1)
         /\ frag_saved' = (outcome \notin {"raise", "fail"})
         /\ frag_ret' = FragmentReturn(frag_saved', frag_file', cmd_result,
                                       command_success)
    /\ main' = "finally"
    /\ UNCHANGED cmd_available
    /\ UNCHANGED << helper, fragment, command_completed, command_success,
                    cmd_result, timed_out, issuedAt >>

\* Lines 805-811: the fragment is closed without saving and the strategy
\* returns; the helper thread is neither joined nor stopped.
CloseFragment ==
    /\ FragmentFrame
    /\ SaveFrame
    /\ UNCHANGED cmd_available
    /\ main = "finally"
    /\ fragment' = IF fragment = "open" THEN "closed" ELSE fragment
    /\ main' = "returned"
    /\ UNCHANGED << helper, command_completed, command_success, cmd_result,
                    timed_out, frag_ret, issuedAt >>

\* Lines 310-339 and 181-192 after the strategy: the restore request, the
\* close request, the next part.
CallerGoesOn ==
    /\ FragmentFrame
    /\ SaveFrame
    /\ UNCHANGED cmd_available
    /\ main \in {"returned", "restore", "close"}
    /\ main' = CASE main = "returned" -> "restore"
                 [] main = "restore" -> "close"
                 [] main = "close" -> "next"
    /\ UNCHANGED << helper, fragment, command_completed, command_success,
                    cmd_result, timed_out, frag_ret, issuedAt >>

\* Lines 713-717 and 738-740: after its sleep the helper issues
\* stop_current_process(cancel=False).
HelperCallsStop ==
    /\ FragmentFrame
    /\ SaveFrame
    /\ UNCHANGED cmd_available
    /\ helper \in {"sleep", "sleep2"}
    /\ helper' = IF helper = "sleep" THEN "in_stop1" ELSE "in_stop2"
    /\ issuedAt' = issuedAt \cup {main}
    /\ UNCHANGED << main, fragment, command_completed, command_success,
                    cmd_result, timed_out, frag_ret >>

\* Lines 717-736: the first call returns; on False the Enter key is sent;
\* an exception goes to the handler at line 743.
HelperStop1Returns ==
    /\ FragmentFrame
    /\ SaveFrame
    /\ UNCHANGED cmd_available
    /\ helper = "in_stop1"
    /\ \E outcome \in StopOutcomes :
         helper' = IF outcome = "raise" THEN "set" ELSE "sleep2"
    /\ UNCHANGED << main, fragment, command_completed, command_success,
                    cmd_result, timed_out, frag_ret, issuedAt >>

\* Lines 740-744: the second call returns and command_success[0] is set,
\* unless the call raised.
HelperStop2Returns ==
    /\ FragmentFrame
    /\ SaveFrame
    /\ UNCHANGED cmd_available
    /\ helper = "in_stop2"
    /\ \E outcome \in StopOutcomes :
         command_success' = (outcome # "raise")
    /\ helper' = "set"
    /\ UNCHANGED << main, fragment, command_completed, cmd_result, timed_out,
                    frag_ret, issuedAt >>

\* Lines 745-746: the finally sets the event and the thread ends.
HelperSets ==
    /\ FragmentFrame
    /\ SaveFrame
    /\ UNCHANGED cmd_available
    /\ helper = "set"
    /\ command_completed' = TRUE
    /\ helper' = "ended"
    /\ UNCHANGED << main, fragment, command_success, cmd_result, timed_out,
                    frag_ret, issuedAt >>

FragmentNext ==
    \/ FragmentBegin
    \/ StartHelper
    \/ ExecuteCommand
    \/ RetryCommand
    \/ WaitCompleted
    \/ SaveFragment
    \/ CloseFragment
    \/ CallerGoesOn
    \/ HelperCallsStop
    \/ HelperStop1Returns
    \/ HelperStop2Returns
    \/ HelperSets

FragmentSpec == FragmentInit /\ [][FragmentNext]_vars


\* ================================================= cleanup of the strategies
\* The temporary model files and 2D target documents of _export_via_converter
\* (lines 407-501), _export_via_drawing_view (503-624) and
\* _export_via_2d_fragment (626-811): the body of each strategy up to the
\* exit it takes, then its finally block, then the next strategy of
\* _export_to_dxf (lines 389-401) unless the strategy returned True.

\* Exits of _export_via_converter: an exception before the converter is
\* known, no converter (433-435), temporary save failed (450-452), Convert
\* returned False (481-483) or raised (484-486), no DXF (478-480), small DXF
\* (475-477), success (471-474).
ConverterExits == {"raise_early", "noconverter", "savefail", "convfalse",
                   "convraise", "nofile", "small", "ok"}

\* Exits of _export_via_drawing_view: an exception before the save,
\* temporary save failed (537-539), no drawing (543-545), the view could not
\* be created (555-589), saving the DXF failed (604-606), small DXF
\* (600-602), success (597-599), any other exception (608-610).
DrawingViewExits == {"raise_early", "savefail", "nodrawing", "noview",
                     "dxffail", "small", "ok", "raise"}

\* Exits of _export_via_2d_fragment: an exception before the fragment
\* exists, no fragment (678-680), saving failed (797-799), small or missing
\* DXF (790-796), success (787-789), any other exception (801-803).
FragmentExits == {"raise_early", "nofragment", "dxffail", "small", "ok", "raise"}

\* The temporary file after the body: not even named, named but not written,
\* or on disk.
TempAfter(exit) ==
    CASE exit \in {"raise_early", "noconverter"} -> "none"
      [] exit = "savefail" -> "unwritten"
      [] OTHER -> "exists"

\* The 2D target after the body: documents.add is reached only after the
\* temporary save and may return None.
TargetAfter(exit) ==
    IF exit \in {"raise_early", "savefail", "nodrawing", "nofragment"}
    THEN "none" ELSE "open"

\* Mutant: the temporary file is left where it is.
MustUnlink_Never(tf) == FALSE

\* Lines 493 and 619: "if temp_file and temp_file.exists()".
MustUnlink(tf) == tf = "exists"

\* Lines 494-499, 620-624: unlink; a failure is swallowed.
Unlink(tf, ok) == IF ok THEN "deleted" ELSE tf

\* Mutant: the 2D target is closed only after a failed conversion.
MustCloseTarget_OnFailure(t, ret) == t = "open" /\ ~ret

\* Lines 613 and 806: "if drawing is not None" / "if fragment is not None".
MustCloseTarget(t, ret) == t = "open"

\* Lines 615 and 808: close(save=False).
TargetSaveArg == FALSE

\* Lines 614-617, 807-811: close; a failure is swallowed.
CloseTarget(t, ok) == IF ok THEN "closed" ELSE t

\* Lines 389-401: the next strategy after a False, none after a True.
NextStrategy(n, ret) ==
    IF ret THEN "returned"
    ELSE CASE n = 2 -> "view" [] n = 3 -> "frag" [] OTHER -> "returned"

CleanupInit ==
    /\ ExportIdle
    /\ ScanIdle
    /\ FragIdle
    /\ RescanIdle
    /\ cl_pc = "conv"
    /\ temp_file = [n \in TempStrategies |-> "none"]
    /\ target = [n \in TargetStrategies |-> "none"]
    /\ cl_ret = FALSE
    /\ ch = NoCleanHistory

CleanupFrame == UNCHANGED << exportVars, scanVars, fragVars, rescan >>

\* Lines 426-489: the body of _export_via_converter.
ConverterBody ==
    /\ CleanupFrame
    /\ cl_pc = "conv"
    /\ \E exit \in ConverterExits :
         /\ temp_file' = [temp_file EXCEPT ![2] = TempAfter(exit)]
         /\ cl_ret' = (exit = "ok")
         /\ ch' = [ch EXCEPT !.exit[2] = exit]
    /\ cl_pc' = "conv_finally"
    /\ UNCHANGED target

\* Lines 491-499: the finally of _export_via_converter.
ConverterFinally ==
    /\ CleanupFrame
    /\ cl_pc = "conv_finally"
    /\ IF MustUnlink(temp_file[2])
       THEN \E ok \in BOOLEAN :
              /\ temp_file' = [temp_file EXCEPT ![2] = Unlink(@, ok)]
              /\ ch' = [ch EXCEPT !.unlinkAsked = @ \cup {2}]
       ELSE UNCHANGED << temp_file, ch >>
    /\ cl_pc' = NextStrategy(2, cl_ret)
    /\ UNCHANGED << target, cl_ret >>

\* Lines 524-610: the body of _export_via_drawing_view.
DrawingViewBody ==
    /\ CleanupFrame
    /\ cl_pc = "view"
    /\ \E exit \in DrawingViewExits :
         /\ temp_file' = [temp_file EXCEPT ![3] = TempAfter(exit)]
         /\ target' = [target EXCEPT ![3] = TargetAfter(exit)]
         /\ cl_ret' = (exit = "ok")
         /\ ch' = [ch EXCEPT !.exit[3] = exit]
    /\ cl_pc' = "view_finally"

\* Lines 612-624: the finally of _export_via_drawing_view: the drawing is
\* closed, then the temporary file removed.
DrawingViewFinally ==
    /\ CleanupFrame
    /\ cl_pc = "view_finally"
    /\ \E closeOk \in BOOLEAN, unlinkOk \in BOOLEAN :
         LET close == MustCloseTarget(target[3], cl_ret)
             unlink == MustUnlink(temp_file[3])
         IN
         /\ target' = IF close THEN [target EXCEPT ![3] = CloseTarget(@, closeOk)]
                       ELSE target
         /\ temp_file' = IF unlink THEN [temp_file EXCEPT ![3] = Unlink(@, unlinkOk)]
                          ELSE temp_file
         /\ ch' = [ch EXCEPT !.closeAsked = IF close THEN @ \cup {3} ELSE @,
                             !.closeSaved = @ \/ (close /\ TargetSaveArg),
                             !.unlinkAsked = IF unlink THEN @ \cup {3} ELSE @]
    /\ cl_pc' = NextStrategy(3, cl_ret)
    /\ UNCHANGED cl_ret

\* Lines 652-803: the body of _export_via_2d_fragment.
FragmentBody ==
    /\ CleanupFrame
    /\ cl_pc = "frag"
    /\ \E exit \in FragmentExits :
         /\ target' = [target EXCEPT ![4] = TargetAfter(exit)]
         /\ cl_ret' = (exit = "ok")
         /\ ch' = [ch EXCEPT !.exit[4] = exit]
    /\ cl_pc' = "frag_finally"
    /\ UNCHANGED temp_file

\* Lines 805-811: the finally of _export_via_2d_fragment.
FragmentFinally ==
    /\ CleanupFrame
    /\ cl_pc = "frag_finally"
    /\ \E closeOk \in BOOLEAN :
         LET close == MustCloseTarget(target[4], cl_ret) IN
         /\ target' = IF close THEN [target EXCEPT ![4] = CloseTarget(@, closeOk)]
                       ELSE target
         /\ ch' = [ch EXCEPT !.closeAsked = IF close THEN @ \cup {4} ELSE @,
                             !.closeSaved = @ \/ (close /\ TargetSaveArg)]
    /\ cl_pc' = NextStrategy(4, cl_ret)
    /\ UNCHANGED << temp_file, cl_ret >>

CleanupNext ==
    \/ ConverterBody
    \/ ConverterFinally
    \/ DrawingViewBody
    \/ DrawingViewFinally
    \/ FragmentBody
    \/ FragmentFinally

CleanupSpec == CleanupInit /\ [][CleanupNext]_vars


\* =================================================================== claims
\* The part in flight has returned from _export_single_part.
PartReturned == pc = "append"

\* The steps before restore whose failure the part boundary turns into a
\* failed result.
FailingSteps == {"gen_path", "exists", "mkdir", "open", "activate", "locate",
                 "straighten", "rebuild", "convert"}

Messages == {MsgExists, MsgOpenFailed, MsgNo3D, MsgNoTopPart,
             MsgNotSheetMetal, MsgBodyMissing, MsgStraightenFailed,
             MsgConversionFailed, ExcText}

\* The summary holds one result per selected part, in order.
OneResultPerSelected ==
    /\ Len(summary.results) = Len(export_list)
    /\ \A i \in 1..Len(export_list) : summary.results[i].part = export_list[i]

\* C1 as stated: every error raised while a part is processed, a failing
\* restore or close included, leaves that part's result with success = false
\* and a non-empty error_message; without cancellation the returned summary
\* holds exactly one result per selected part.
C1_Original ==
    /\ PartReturned /\ ( \/ h.failedAt # "none"
                         \/ h.restore \in {"fail", "raise"}
                         \/ ~h.closeOk )
         => ~result.success /\ result.error_message # ""
    /\ pc = "done" /\ cancelAt.n < 0 => OneResultPerSelected

\* C1 amended: an error in output-path generation, the skip-fast and
\* directory step, open, locate, straighten, rebuild or convert leaves the
\* part's result with success = false and the step's message or the
\* exception's text; failures of restore and close are not part of this;
\* without cancellation the returned summary holds exactly one result per
\* selected part, in order.
C1_Amended ==
    /\ PartReturned /\ h.failedAt # "none"
         => /\ h.failedAt \in FailingSteps
            /\ ~result.success
            /\ result.error_message \in Messages
            /\ result.error_message # ""
    /\ PartReturned /\ h.failedAt = "none" /\ h.restore # "raise"
         => result.success /\ result.error_message = ""
    /\ pc = "done" /\ cancelAt.n < 0 => OneResultPerSelected

\* C1 witness: the first part failed on an exception, the loop went on and
\* the second part succeeded.
C1_Witness ==
    /\ pc = "done"
    /\ Len(summary.results) = 2
    /\ ~summary.results[1].success
    /\ summary.results[1].error_message = ExcText
    /\ summary.results[2].success

\* C2: export_parts never lets an exception escape to its caller.
C2_NoEscape == pc # "raised"

Unclosed == IF doc = "open" /\ h.closes = 0 THEN 1 ELSE 0

\* Each opened source document is asked to close exactly once, without
\* saving, before the part's export returns.
ClosedOnceUnsaved ==
    /\ PartReturned /\ doc = "open" => h.closes = 1 /\ ~h.closeSaved
    /\ PartReturned /\ doc = "none" => h.closes = 0

\* C4 as stated: each opened source document is asked to close exactly once
\* without saving before the part's export returns, so at most one source
\* document is open at any time and none when export_parts returns.
C4_Original ==
    /\ ClosedOnceUnsaved
    /\ openDocs <= 1
    /\ pc = "done" => openDocs = 0

\* C4 amended: each opened source document is asked to close exactly once
\* without saving before the part's export returns; the documents open in
\* the host are the one not yet asked to close (at most one) and those
\* whose close request failed, so none is open when export_parts returns
\* unless a close request failed.
C4_Amended ==
    /\ ClosedOnceUnsaved
    /\ openDocs = Unclosed + leaked
    /\ pc = "done" => openDocs = leaked
    /\ leaked = 0 => openDocs <= 1

\* C4 witness: the second part returns after a failed conversion with its
\* document closed, the first one's having been closed too.
C4_Witness ==
    /\ PartReturned
    /\ Len(summary.results) = 1
    /\ doc = "open"
    /\ h.failedAt = "convert"
    /\ h.closes = 1
    /\ openDocs = 0
    /\ 1 \in called

\* C5: a part with export_selected = false never appears in the summary and
\* no host call is issued for it.
C5_UnselectedUntouched ==
    /\ \A i \in 1..Len(summary.results) :
         parts[summary.results[i].part].export_selected
    /\ \A p \in called : parts[p].export_selected
    /\ InPart \/ PartReturned => parts[Cur].export_selected

\* C5 witness: the batch is over, one part was not selected, another was
\* exported through host calls.
C5_Witness ==
    /\ pc = "done"
    /\ \E p \in PartIds : ~parts[p].export_selected
    /\ called # {}
    /\ \E i \in 1..Len(summary.results) : summary.results[i].success

\* C6: with overwrite_existing = false and a file at the resolved output
\* path, the part fails with the already-exists message, no host call is
\* made for it, no document is opened and the file is left as it was.
C6_SkipFast ==
    PartReturned /\ result.output_path # 0 /\ ~settings.overwrite_existing
                 /\ Exists(h.fileBefore)
      => /\ ~result.success
         /\ result.error_message = MsgExists
         /\ h.calls = {}
         /\ doc = "none"
         /\ Cur \notin called
         /\ fs[result.output_path] = h.fileBefore

\* C6 witness: a part is skipped because of a file found before the batch.
C6_Witness ==
    /\ PartReturned
    /\ ~settings.overwrite_existing
    /\ h.fileBefore = OldFile
    /\ result.error_message = MsgExists
    /\ fs[result.output_path] = OldFile

\* C7: a cancel request that arrives between two parts, after k results,
\* ends the batch with exactly the results of the first k selected parts.
C7_CancelBetween ==
    pc = "done" /\ cancelAt.n >= 0 /\ ~cancelAt.inflight
      => /\ Len(summary.results) = cancelAt.n
         /\ \A i \in 1..cancelAt.n : summary.results[i].part = export_list[i]

\* C7 witness: two parts selected, cancel after the first, one result.
C7_Witness ==
    /\ pc = "done"
    /\ Len(export_list) = 2
    /\ cancelAt = [n |-> 1, inflight |-> FALSE]
    /\ Len(summary.results) = 1

\* C8: a cancel request that arrives while a part is in flight does not
\* interrupt it: the part still restores and closes, its result is
\* appended, and no further part is started.
C8_CancelInFlight ==
    /\ pc = "done" /\ cancelAt.inflight
         => /\ Len(summary.results) = cancelAt.n + 1
            /\ \A i \in 1..(cancelAt.n + 1) :
                 summary.results[i].part = export_list[i]
    /\ PartReturned /\ cancelAt.inflight /\ cancelAt.n = Len(summary.results)
         => /\ doc = "open" => h.closes = 1
            /\ h.snapshot # "none" /\ body # h.snapshot
                 => h.restore \in {"fail", "raise"}

\* C8 witness: cancel arrived while the first of two parts was being
\* converted; that part restored, closed and was appended, the second was
\* not started.
C8_Witness ==
    /\ pc = "done"
    /\ Len(export_list) = 2
    /\ cancelAt = [n |-> 0, inflight |-> TRUE]
    /\ Len(summary.results) = 1
    /\ summary.results[1].success
    /\ openDocs = 0

\* C9: a cancel request made before export_parts is invoked is cleared by
\* the invocation; without a later request every selected part is processed.
C9_PriorCancelCleared ==
    /\ pc # "idle" /\ cancelAt = CancelledBefore => ~cancel_requested
    /\ pc = "done" /\ cancelAt = CancelledBefore => OneResultPerSelected

\* C9 witness: cancel was requested before the invocation and all parts
\* were processed.
C9_Witness ==
    /\ pc = "done"
    /\ cancelAt = CancelledBefore
    /\ Len(summary.results) = NParts

\* C10: export_parts always ends by returning a summary whose end timestamp
\* is set: in every state either it has done so or it can take a step.
C10_Terminates ==
    \/ pc = "done" /\ summary.end_time
    \/ ENABLED ExportStep

\* Supporting C10: export_parts stops (returning or raising) under FairSpec.
Stops == <>(pc \in {"done", "raised"})

\* Supporting C10: each part is begun at most once and each conversion
\* strategy is invoked at most once for it.
AtMostOnce ==
    /\ index <= Len(export_list)
    /\ Len(summary.results) <= index
    /\ \A i, j \in 1..Len(h.tried) : i # j => h.tried[i] # h.tried[j]

\* The conversion chain has returned for the part in flight.
ChainReturned == pc = "restore" /\ h.tried # << >>

C11_CheckedStrategies ==
    ChainReturned /\ chain /\ h.tried[Len(h.tried)] # 1
      => ContentCheck(fs[result.output_path])

\* C12: if every conversion strategy fails for a part that got past the
\* skip-fast check, the result is a failure with a non-empty message and no
\* file exists at the part's output path afterwards.
C12_NoFileRemains ==
    PartReturned /\ h.failedAt = "convert"
      => /\ ~result.success
         /\ result.error_message # ""
         /\ ~Exists(fs[result.output_path])

\* Supporting C12: the result of such a part is a failure with a message.
C12_FailureReported ==
    PartReturned /\ h.failedAt = "convert"
      => ~result.success /\ result.error_message # ""

\* C13: with straighten_before_export set, a conversion strategy is invoked
\* only while the body reads straightened, so the file of every successful
\* result was produced from a straightened body.
C13_StraightWhenConverted ==
    /\ settings.straighten_before_export /\ pc \in {"convert", "conv3", "conv4"}
         => IsStraightened(body)
    /\ settings.straighten_before_export /\ ChainReturned
         => IsStraightened(body)
    /\ PartReturned /\ result.success => h.tried # << >>

\* C13 witness: a body found folded was straightened and the chain then
\* reported success.
C13_Witness ==
    /\ ChainReturned
    /\ settings.straighten_before_export
    /\ h.snapshot = "folded"
    /\ "straighten" \in h.calls
    /\ chain
    /\ body = "straight"

\* C14: every result in the summary has its start and its end timestamp
\* set, whatever the exit path of the part's export.
C14_Timestamps ==
    \A i \in 1..Len(summary.results) :
      summary.results[i].start_time /\ summary.results[i].end_time

\* Number of parts whose processing is over.
Processed == IF InPart \/ PartReturned THEN index - 1 ELSE index

\* C15: the i-th result refers to the i-th selected part, every processed
\* part has exactly one result, and total_count = success_count +
\* failure_count = number of parts processed.
C15_OrderedCounts ==
    /\ \A i \in 1..Len(summary.results) :
         summary.results[i].part = export_list[i]
    /\ \A i, j \in 1..Len(export_list) : i < j => export_list[i] < export_list[j]
    /\ total_count(summary) = Processed
    /\ total_count(summary) = success_count(summary) + failure_count(summary)

\* C15 witness: a finished batch with one success and one failure.
C15_Witness ==
    /\ pc = "done"
    /\ total_count(summary) = 2
    /\ success_count(summary) = 1
    /\ failure_count(summary) = 1

\* C16: a processed part gets export_path = the result's output path and
\* export_status = "OK" exactly when the result is a success, else the
\* error message; its selection flag, and every field of the parts that
\* were not selected or not reached, stay as they were.
C16_OnlyOutcomeRecorded ==
    /\ pc # "idle" => Selected(parts) = export_list
    /\ \A i \in 1..Len(summary.results) :
         LET r == summary.results[i] IN
         /\ parts[r.part].export_path = r.output_path
         /\ parts[r.part].export_status = "OK" <=> r.success
         /\ ~r.success => parts[r.part].export_status = r.error_message
    /\ \A p \in PartIds :
         (\A i \in 1..Len(summary.results) : summary.results[i].part # p)
           => parts[p].export_path = 0 /\ parts[p].export_status = ""

\* C16 witness: the first of two selected parts was exported, the second was
\* not reached because of a cancellation.
C16_Witness ==
    /\ pc = "done"
    /\ Len(export_list) = 2
    /\ Len(summary.results) = 1
    /\ summary.results[1].success
    /\ parts[export_list[1]].export_status = "OK"
    /\ parts[export_list[2]].export_status = ""


\* The components of the hierarchy below and including c, depth first,
\* a component before its descendants, siblings in enumeration order.
RECURSIVE HostPreOrder(_, _)
RECURSIVE HostPreOrderAll(_, _)
HostPreOrder(hst, c) == << c >> \o HostPreOrderAll(hst, Children(hst, c))
HostPreOrderAll(hst, cs) ==
    IF cs = << >> THEN << >>
    ELSE HostPreOrder(hst, Head(cs)) \o HostPreOrderAll(hst, Tail(cs))

\* scan_document has returned a tree.
Scanned == scan_pc \in {"done", "flat"}

\* The reports issued from the visit of a node.
IsNodeTick(t) == t.part # 0
NodeTicks == SelectSeq(ticks, IsNodeTick)

\* The node created for component c.
NodeOf(c) == CHOOSE i \in 1..Len(tree) : tree[i].comp = c

PreOrderNodes(Test(_)) ==
    LET InOrder == HostPreOrder(host, 1)
        Keep(c) == Test(tree[NodeOf(c)])
    IN SelectSeq(InOrder, Keep)

SheetPartComps == [i \in 1..Len(sheet_parts) |-> sheet_parts[i].comp]

IsFlagged(node) == node.is_sheet_metal
IsFlaggedWithInfo(node) == node.is_sheet_metal /\ node.sheet_part # NoInfo

C19_DetectedFlagged ==
    \A i \in 1..Len(tree) :
      host.kind[tree[i].comp] # "plain"
        => /\ tree[i].is_sheet_metal
           /\ tree[i].sheet_part # NoInfo
           /\ tree[i].sheet_part.comp = tree[i].comp

\* Supporting C19: a component whose SheetMetalBodies property yields
\* readable bodies is flagged and carries its SheetPartInfo.
C19_DirectFlagged ==
    \A i \in 1..Len(tree) :
      host.kind[tree[i].comp] = "direct"
        => /\ tree[i].is_sheet_metal
           /\ tree[i].sheet_part # NoInfo
           /\ tree[i].sheet_part.comp = tree[i].comp
           /\ tree[i].sheet_part.id = tree[i].id

\* C20: within one scan all node identifiers are pairwise distinct.
C20_DistinctIds ==
    \A i, j \in 1..Len(tree) : i # j => tree[i].id # tree[j].id

\* C21: success_rate of the summary never divides by zero; it is 0 while the
\* summary has no results and success_count * 100 / total_count otherwise.
C21_SuccessRate ==
    LET r == success_rate(summary) IN
    /\ r.den # 0
    /\ total_count(summary) = 0 => r.num = 0
    /\ total_count(summary) # 0 =>
         r.num * total_count(summary) = success_count(summary) * 100 * r.den

\* A finished batch with no result, and one where half of the parts succeeded.
C21_Witness ==
    /\ pc = "done"
    /\ total_count(summary) = 0
    /\ success_rate(summary).num = 0

C21_WitnessHalf ==
    /\ pc = "done"
    /\ total_count(summary) = 2
    /\ success_rate(summary) = Quotient(100, 2)

\* The elements of a sequence.
Range(seq) == { seq[i] : i \in 1..Len(seq) }

\* The strategies invoked so far, in order, are numbered increasingly.
InOrder(tried) == \A i, j \in 1..Len(tried) : i < j => tried[i] < tried[j]

C24_DirectSaveFor2D ==
    PartReturned /\ Is2D(h.doc_type)
      => /\ h.tried # << >>
         /\ h.tried[1] = 1
         /\ chain => result.success

\* Supporting C24: what export_parts does with a 2D document instead: the
\* locate step rejects it and no strategy is invoked.
C24_RejectedAtLocate ==
    PartReturned /\ Is2D(h.doc_type)
      => /\ h.tried = << >>
         /\ ~result.success
         /\ result.error_message = MsgNo3D

\* C25: if straightening is required and the flag re-read after the
\* straighten request is still false, the part fails with the
\* straighten-failed message, and neither a rebuild nor a conversion
\* strategy is requested for it.
C25_StraightenFailed ==
    h.failedAt = "straighten" /\ pc \in {"restore", "close", "append"}
      => /\ ~result.success
         /\ "rebuild" \notin h.calls
         /\ "convert" \notin h.calls
         /\ h.tried = << >>
         /\ flow = "return" =>
              /\ result.error_message = MsgStraightenFailed
              /\ MustStraighten(settings, original_straightened)
              /\ ~IsStraightened(body)

\* C25 witness: a part returned after the straighten request (and the
\* property setter) left the flag false.
C25_Witness ==
    /\ PartReturned
    /\ h.failedAt = "straighten"
    /\ flow = "return"
    /\ "straighten" \in h.calls
    /\ result.error_message = MsgStraightenFailed

\* C26: if the body was straightened and the rebuild then reported failure,
\* the conversion chain is still invoked, and the part's result is a success
\* whenever the chain reports success.
C26_RebuildNonFatal ==
    h.rebuildFalse
      => /\ pc \in {"convert", "conv3", "conv4", "restore", "close", "append"}
         /\ "straighten" \in h.calls
         /\ pc \in {"restore", "close", "append"} =>
              /\ h.tried # << >>
              /\ chain => result.success

\* C26 witness: rebuild reported failure, the chain succeeded, the part is a
\* success.
C26_Witness ==
    /\ PartReturned
    /\ h.rebuildFalse
    /\ chain
    /\ result.success

\* C27: a restore request that fails or raises does not alter the part's
\* result; in particular a result with success = true has an empty
\* error_message.
C27_RestoreKeepsResult ==
    PartReturned /\ result.success => result.error_message = ""

\* Supporting C27: a restore request that returns False leaves the result of
\* a successful conversion as it was.
C27_FailedRestoreIgnored ==
    PartReturned /\ h.restore = "fail" /\ chain
      => result.success /\ result.error_message = ""

\* C28: if opening the source document fails (no path, no file on disk, or
\* the host's open failing), the part's result is a failure with the
\* open-failed message and no further host call is issued for the part.
C28_OpenFailed ==
    h.opened \in {"nofile", "none"}
      => /\ pc = "append"
         /\ ~result.success
         /\ result.error_message = MsgOpenFailed
         /\ h.calls \subseteq {"open"}
         /\ h.closes = 0
         /\ h.tried = << >>
         /\ doc = "none"

\* C28 witness: the host's open failed for the part in flight.
C28_Witness ==
    /\ PartReturned
    /\ h.opened = "none"
    /\ h.calls = {"open"}
    /\ result.error_message = MsgOpenFailed

\* The locate steps that find nothing.
LocateFailures == {"no3d", "notop", "nosheet", "nobody"}

\* C29: if a locate step finds nothing after a successful open (no 3D
\* document view, no top part, no sheet-metal container, no body), the part's
\* result is a failure with that step's message, no straighten, rebuild,
\* convert or restore request is issued, and the document is still closed,
\* without saving.
C29_LocateFailed ==
    h.located \in LocateFailures
      => /\ pc \in {"close", "append"}
         /\ h.opened = "ok"
         /\ ~result.success
         /\ h.located = "no3d" => result.error_message = MsgNo3D
         /\ h.located = "notop" => result.error_message = MsgNoTopPart
         /\ h.located = "nosheet" => result.error_message = MsgNotSheetMetal
         /\ h.located = "nobody" => result.error_message = MsgBodyMissing
         /\ h.calls \cap {"straighten", "rebuild", "convert", "fold",
                          "restore_straighten"} = {}
         /\ h.tried = << >>
         /\ PartReturned => h.closes = 1 /\ ~h.closeSaved

\* C29 witness: a part without a sheet-metal container has returned and its
\* document has been closed.
C29_Witness ==
    /\ PartReturned
    /\ h.located = "nosheet"
    /\ result.error_message = MsgNotSheetMetal
    /\ h.closes = 1
    /\ openDocs = 0

\* C30: the confirmation helper issues host calls only while the interactive
\* strategy is executing: once the strategy has returned, the helper issues
\* no host call and is inside none, so none overlaps the restore, the close
\* or a later part.
C30_HelperConfined ==
    /\ issuedAt \subseteq InStrategy
    /\ main \in AfterStrategy => ~InHostCall(helper)

\* Supporting C30: when the wait ended because the event was set, the helper
\* has finished before the strategy goes on, and all its calls were issued
\* while the strategy was executing.
C30_QuietUnlessTimedOut ==
    main \in {"save", "finally"} \cup AfterStrategy /\ helper # "none" /\ ~timed_out
      => helper = "ended" /\ issuedAt \subseteq InStrategy

\* Positions of the calling thread at which the interactive command has not
\* been issued yet (the first attempt, or the synchronous retry after a
\* refused post), and those at which execute_command has returned.
BeforeCommand == {"execute", "retry"}
AfterCommand == {"wait", "save", "finally"} \cup AfterStrategy

\* C31: nothing orders the helper's accept signal against the calling
\* thread's command: the helper can issue it at any position of the calling
\* thread from the start of the helper thread on, before the command is
\* issued as well as after it has completed, and at no position before the
\* thread was started.
C31_NoOrdering ==
    /\ issuedAt \subseteq BeforeCommand \cup AfterCommand
    /\ issuedAt # {} => helper \notin {"none", "sleep"}
    /\ main \in {"begin", "start"} => helper = "none"

\* C31 witness: in one run the helper issued its first accept signal before
\* the command was issued and its second after the command had completed.
C31_Witness ==
    /\ issuedAt \cap BeforeCommand # {}
    /\ issuedAt \cap AfterCommand # {}

\* C31, the two cases apart: the first signal of a run issued before the
\* command, and the first signal of a run issued after it.
C31_WitnessBefore ==
    /\ helper = "in_stop1"
    /\ main = "execute"
    /\ issuedAt = {"execute"}

C31_WitnessAfter ==
    /\ helper = "in_stop1"
    /\ main = "wait"
    /\ cmd_result
    /\ issuedAt = {"wait"}

\* Strategy n has returned.
Past(n) ==
    CASE n = 2 -> cl_pc \in {"view", "view_finally", "frag", "frag_finally", "returned"}
      [] n = 3 -> cl_pc \in {"frag", "frag_finally", "returned"} /\ ch.exit[3] # "none"
      [] OTHER -> cl_pc = "returned" /\ ch.exit[4] # "none"

C33_Original ==
    /\ \A n \in TargetStrategies : Past(n) /\ TargetAfter(ch.exit[n]) = "open"
                                        => n \in ch.closeAsked
    /\ cl_pc = "returned" => \A n \in TargetStrategies : target[n] # "open"

\* C33 amended: every 2D target that was created is asked to close, with
\* save=false, before its strategy returns, whatever the exit; it is open
\* afterwards only if that close request failed.
C33_Amended ==
    /\ ~ch.closeSaved
    /\ \A n \in TargetStrategies :
         Past(n) => /\ TargetAfter(ch.exit[n]) = "open" => n \in ch.closeAsked
                    /\ target[n] \in {"open", "closed"} => n \in ch.closeAsked

\* C33 witness: the interactive strategy succeeded and its fragment was
\* closed, after the drawing of the failed view projection had been closed.
C33_Witness ==
    /\ cl_pc = "returned"
    /\ cl_ret
    /\ ch.exit[3] = "noview"
    /\ target = [n \in TargetStrategies |-> "closed"]

\* C34 as stated: whenever the progress record shows current = k, at least k
\* parts have finished processing.
C34_Original ==
    pc \notin {"idle", "raised"} => Len(summary.results) >= progress.current

\* The progress record while export_parts runs.
C34_State ==
    pc \notin {"idle", "raised"}
      => /\ progress.total = Len(Selected(parts))
         /\ progress.current \in 0..progress.total
         /\ pc # "done" => /\ progress.current = index
                           /\ Len(summary.results) >= progress.current - 1

\* C34 amended: the observer is notified before each part's unit of work:
\* when the record shows current = k inside the loop, part k is the one in
\* flight and at least k - 1 parts have finished; current never decreases
\* and never exceeds total, and total is the number of selected parts.
C34_Amended ==
    /\ [] C34_State
    /\ [][pc # "idle" => progress'.current >= progress.current]_vars

\* C34 witness: the record for the second part has been pushed while one
\* result is in the summary.
C34_Witness ==
    /\ InPart
    /\ progress.current = 2
    /\ Len(summary.results) = 1

\* The node created for the parent component of node i's component.
ParentNode(i) ==
    CHOOSE q \in 1..Len(tree) : tree[q].comp = host.par[tree[i].comp]

\* C35: in every scanned tree the root has level 0 and an empty parent_id,
\* every other node has its parent's level + 1 and its parent's id as
\* parent_id, and the SheetPartInfo embedded in a node has the node's id,
\* level and parent_id.
C35_LevelsAndParents ==
    \A i \in 1..Len(tree) :
      LET node == tree[i] IN
      /\ IF host.par[node.comp] = 0
         THEN node.level = 0 /\ node.parent_id = 0
         ELSE /\ node.level = tree[ParentNode(i)].level + 1
              /\ node.parent_id = tree[ParentNode(i)].id
      /\ node.sheet_part # NoInfo =>
           /\ node.sheet_part.id = node.id
           /\ node.sheet_part.level = node.level
           /\ node.sheet_part.parent_id = node.parent_id
      /\ \A j \in 1..Len(node.children) :
           /\ tree[node.children[j]].level = node.level + 1
           /\ tree[node.children[j]].parent_id = node.id

\* C35 witness: a finished scan of a chain of three components whose deepest
\* node, on level 2, was added to its parent and carries a SheetPartInfo.
C35_Witness ==
    /\ scan_pc = "done"
    /\ Len(tree) = 3
    /\ tree[3].level = 2
    /\ tree[3].sheet_part # NoInfo
    /\ tree[2].children = << 3 >>

\* The outcome of a rescan through a missing or stale back-reference.
C36_State ==
    rescan.ref \in {"missing", "stale"}
      => rescan.ret = NoInfo /\ ~rescan.raised

C37_OwnFile ==
    PartReturned /\ result.success
      => fs[result.output_path].writer = result.part

\* Supporting C37: a success always finds a file above the minimum size at
\* the output path, whoever wrote it.
C37_SomeFile ==
    PartReturned /\ result.success
      => ContentCheck(fs[result.output_path])

\* C38: within one batch no two results with success = true share an output
\* path, for either value of overwrite_existing.
C38_DistinctOutputs ==
    \A i, j \in 1..Len(summary.results) :
      i < j /\ summary.results[i].success /\ summary.results[j].success
        => summary.results[i].output_path # summary.results[j].output_path

\* Supporting C38: with overwrite_existing = false no two successes share a
\* path, since the later part is stopped by the skip-fast test.
C38_DistinctUnlessOverwrite ==
    ~settings.overwrite_existing => C38_DistinctOutputs

\* C39: the interactive strategy returns True exactly when saving the 2D
\* target reported success and the output file exists with more than 500
\* bytes, whatever the command returned, whether it was available and
\* whether the helper succeeded or finished in time.
C39_ResultFromSaveOnly ==
    main \in {"finally"} \cup AfterStrategy
      => frag_ret = (frag_saved /\ ContentCheck(frag_file))

\* C39 witness: the strategy returned True although the command was reported
\* unavailable and refused twice and the helper had not finished when the
\* wait expired.
C39_Witness ==
    /\ main = "returned"
    /\ frag_ret
    /\ ~cmd_available
    /\ ~cmd_result
    /\ ~command_success
    /\ timed_out

\* C39, the converse case: command and helper both reported success and the
\* strategy returned False because the saved file was too small.
C39_WitnessFalse ==
    /\ main = "returned"
    /\ ~frag_ret
    /\ cmd_available /\ cmd_result /\ command_success /\ ~timed_out
    /\ frag_saved
    /\ frag_file = SmallFile(1)

\* C40: when the batch is over the last progress record has current = total
\* = N, the number of parts to export, also when the loop was broken by a
\* cancellation after k < N parts and the summary holds only k results; the
\* final current equals the number of results only when the loop ran to its
\* end.
C40_FinalProgress ==
    pc = "done" /\ Len(export_list) > 0
      => /\ progress.current = progress.total
         /\ progress.total = Len(export_list)
         /\ Len(summary.results) = index
         /\ (Len(summary.results) = progress.current
               <=> index = Len(export_list))
         /\ (index < Len(export_list) => cancel_requested)

\* C40 witness: a batch cancelled after one part of several, finished with
\* current = total above the number of results.
C40_Witness ==
    /\ pc = "done"
    /\ cancel_requested
    /\ Len(summary.results) = 1
    /\ progress.total > 1
    /\ progress.current = progress.total

================================================================
